---------------------------- MODULE Spec2Model ----------------------------
(***************************************************************************)
(* Model of src/carbon_footprint_node.py: the carbon footprint node's      *)
(* task_callback (the supervisor), the child process it spawns             *)
(* (create_tracker, the worker), the multiprocessing queue between them    *)
(* and the CarbonTracker log directory they share.                         *)
(*                                                                         *)
(* Python values are modelled as follows.                                  *)
(*   float  : an exact rational <<n, d>>, d > 0, in lowest terms           *)
(*   str    : a sequence of chunks (TLA+ strings); + is \o, "" is <<>>     *)
(*   bytes  : a JSON text, a sequence of tokens (see the JSON section)     *)
(***************************************************************************)
EXTENDS Integers, Sequences, FiniteSets, TLC

(***************************************************************************)
(* Bounds of the model.                                                    *)
(***************************************************************************)
\* number of task_callback invocations the node framework makes
MaxInvocations == 2

\* how many interrupt signals are considered
MaxSignals == 2

(***************************************************************************)
(* Floats as exact rationals.                                              *)
(***************************************************************************)
RECURSIVE GCD(_, _)
GCD(a, b) == IF b = 0 THEN a ELSE GCD(b, a % b)

Abs(x) == IF x < 0 THEN -x ELSE x

\* the rational n/d (d # 0) in lowest terms with a positive denominator
Rat(n, d) ==
    LET g == GCD(Abs(n), Abs(d))
        s == IF d < 0 THEN -1 ELSE 1
    IN  <<(s * n) \div g, (s * d) \div g>>

Float(n) == <<n, 1>>

Zero == Float(0)

RMul(a, b) == Rat(a[1] * b[1], a[2] * b[2])

\* a / b, b # 0
RDiv(a, b) == Rat(a[1] * b[2], a[2] * b[1])

RGt0(a) == a[1] > 0

\* an output field no setter has been called on
Unset == <<>>

(***************************************************************************)
(* JSON.  A text is a sequence of tokens, a value is a tagged record.      *)
(***************************************************************************)
Tok(t) == [t |-> t, s |-> <<>>]
TStr(s) == [t |-> "str", s |-> s]
\* a number is kept as its decimal text
TNum(n) == [t |-> "num", s |-> <<n>>]

JStr(s) == [t |-> "str", s |-> s, keys |-> <<>>, items |-> <<>>]
JNum(n) == [t |-> "num", s |-> <<n>>, keys |-> <<>>, items |-> <<>>]
JNull == [t |-> "null", s |-> <<>>, keys |-> <<>>, items |-> <<>>]
JList(items) == [t |-> "list", s |-> <<>>, keys |-> <<>>, items |-> items]
\* a dict: keys[i] maps to items[i], in insertion order
JObj(keys, items) == [t |-> "dict", s |-> <<>>, keys |-> keys, items |-> items]

\* json.dumps(v).encode("utf-8")
RECURSIVE JsonDumps(_)
RECURSIVE DumpItems(_, _)
RECURSIVE DumpMembers(_, _, _)
JsonDumps(v) ==
    CASE v.t = "str" -> <<TStr(v.s)>>
      [] v.t = "num" -> <<TNum(v.s[1])>>
      [] v.t = "null" -> <<Tok("null")>>
      [] v.t = "list" -> <<Tok("[")>> \o DumpItems(v.items, 1) \o <<Tok("]")>>
      [] v.t = "dict" -> <<Tok("{")>> \o DumpMembers(v.keys, v.items, 1) \o <<Tok("}")>>

DumpItems(items, i) ==
    IF i > Len(items) THEN <<>>
    ELSE (IF i > 1 THEN <<Tok(",")>> ELSE <<>>)
         \o JsonDumps(items[i]) \o DumpItems(items, i + 1)

DumpMembers(keys, items, i) ==
    IF i > Len(keys) THEN <<>>
    ELSE (IF i > 1 THEN <<Tok(",")>> ELSE <<>>)
         \o <<TStr(keys[i]), Tok(":")>> \o JsonDumps(items[i])
         \o DumpMembers(keys, items, i + 1)

\* the result of a parse step: a value and the index of the next token, or
\* a failure (json.JSONDecodeError)
ParseFail == [ok |-> FALSE, val |-> JNull, next |-> 0]
ParseOk(v, n) == [ok |-> TRUE, val |-> v, next |-> n]

\* dict insertion: a repeated key keeps its place and takes the new value
RECURSIVE DictPut(_, _, _, _, _)
DictPut(keys, items, k, v, i) ==
    IF i > Len(keys) THEN [keys |-> Append(keys, k), items |-> Append(items, v)]
    ELSE IF keys[i] = k THEN [keys |-> keys, items |-> [items EXCEPT ![i] = v]]
    ELSE DictPut(keys, items, k, v, i + 1)

RECURSIVE ParseValue(_, _)
RECURSIVE ParseElems(_, _, _)
RECURSIVE ParseMembers(_, _, _, _)
ParseValue(ts, i) ==
    IF i > Len(ts) THEN ParseFail
    ELSE CASE ts[i].t = "str" -> ParseOk(JStr(ts[i].s), i + 1)
           [] ts[i].t = "num" -> ParseOk(JNum(ts[i].s[1]), i + 1)
           [] ts[i].t = "null" -> ParseOk(JNull, i + 1)
           [] ts[i].t = "[" ->
                IF i + 1 <= Len(ts) /\ ts[i + 1].t = "]"
                THEN ParseOk(JList(<<>>), i + 2)
                ELSE ParseElems(ts, i + 1, <<>>)
           [] ts[i].t = "{" ->
                IF i + 1 <= Len(ts) /\ ts[i + 1].t = "}"
                THEN ParseOk(JObj(<<>>, <<>>), i + 2)
                ELSE ParseMembers(ts, i + 1, <<>>, <<>>)
           [] OTHER -> ParseFail

ParseElems(ts, i, acc) ==
    LET r == ParseValue(ts, i) IN
    IF ~r.ok \/ r.next > Len(ts) THEN ParseFail
    ELSE IF ts[r.next].t = "," THEN ParseElems(ts, r.next + 1, Append(acc, r.val))
    ELSE IF ts[r.next].t = "]" THEN ParseOk(JList(Append(acc, r.val)), r.next + 1)
    ELSE ParseFail

ParseMembers(ts, i, keys, items) ==
    IF i + 1 > Len(ts) \/ ts[i].t # "str" \/ ts[i + 1].t # ":" THEN ParseFail
    ELSE LET r == ParseValue(ts, i + 2) IN
         IF ~r.ok \/ r.next > Len(ts) THEN ParseFail
         ELSE LET d == DictPut(keys, items, ts[i].s, r.val, 1) IN
              IF ts[r.next].t = "," THEN ParseMembers(ts, r.next + 1, d.keys, d.items)
              ELSE IF ts[r.next].t = "}" THEN ParseOk(JObj(d.keys, d.items), r.next + 1)
              ELSE ParseFail

\* json.loads(text): the whole text must be one value
JsonLoads(ts) ==
    LET r == ParseValue(ts, 1) IN
    IF r.ok /\ r.next = Len(ts) + 1 THEN r ELSE ParseFail

(***************************************************************************)
(* Python's operators on decoded JSON values, as task_callback uses them.  *)
(***************************************************************************)
InSeq(x, seq) == \E i \in 1..Len(seq) : seq[i] = x

\* key in v: "yes", "no", or "TypeError" (int and None are not iterable)
PyIn(key, v) ==
    CASE v.t = "dict" -> IF InSeq(key, v.keys) THEN "yes" ELSE "no"
      [] v.t = "list" -> IF InSeq(JStr(key), v.items) THEN "yes" ELSE "no"
      [] v.t = "str" -> IF \A i \in 1..Len(key) : InSeq(key[i], v.s) THEN "yes" ELSE "no"
      [] OTHER -> "TypeError"

\* v[key] of a dict that has the key
DictGet(v, key) == v.items[CHOOSE i \in 1..Len(v.keys) : v.keys[i] = key]

\* the elements list.extend(v) appends, when v is iterable
Iterable(v) == v.t \in {"dict", "list", "str"}

RECURSIVE Chars(_, _)
Chars(s, i) == IF i > Len(s) THEN <<>> ELSE <<JStr(<<s[i]>>)>> \o Chars(s, i + 1)

RECURSIVE Keys(_, _)
Keys(ks, i) == IF i > Len(ks) THEN <<>> ELSE <<JStr(ks[i])>> \o Keys(ks, i + 1)

Elements(v) ==
    CASE v.t = "list" -> v.items
      [] v.t = "dict" -> Keys(v.keys, 1)
      [] v.t = "str" -> Chars(v.s, 1)

(***************************************************************************)
(* Inputs of the model: what the collaborators may return.                 *)
(***************************************************************************)
\* hw.latency() in ms and hw.power_consumption() in W, or an exception
HwReadings ==
    { [raises |-> TRUE, latency |-> 0, power |-> 0],
      [raises |-> FALSE, latency |-> 3600000, power |-> 100],
      [raises |-> FALSE, latency |-> 3600000, power |-> 0] }

NoHw == [raises |-> FALSE, latency |-> 0, power |-> 0]

KeyNumOutputs == <<"num_outputs">>
KeyModelRestrains == <<"model_restrains">>

\* user_input.extra_data(): the bytes of the request metadata
UserExtraData ==
    { <<>>,
      <<Tok("{")>>,
      <<Tok("["), Tok("]")>>,
      <<TNum("3")>>,
      <<Tok("{"), Tok("}")>>,
      <<Tok("{"), TStr(KeyNumOutputs), Tok(":"), TStr(<<>>), Tok("}")>>,
      <<Tok("{"), TStr(KeyNumOutputs), Tok(":"), TNum("3"), Tok("}")>>,
      <<Tok("{"), TStr(KeyNumOutputs), Tok(":"), TNum("3"), Tok(","),
        TStr(KeyModelRestrains), Tok(":"), Tok("["), TStr(<<"r1">>), Tok("]"), Tok("}")>>,
      <<Tok("{"), TStr(KeyNumOutputs), Tok(":"), TNum("3"), Tok(","),
        TStr(KeyModelRestrains), Tok(":"), TNum("7"), Tok("}")>>,
      <<Tok("{"), TStr(KeyModelRestrains), Tok(":"), Tok("["), TStr(<<"r1">>),
        Tok(","), TStr(<<"r2">>), Tok("]"), Tok(","),
        TStr(KeyNumOutputs), Tok(":"), TStr(<<"2">>), Tok("}")>> }

\* ml_model.model(): the model identifier, or an exception
ModelResults ==
    { [raises |-> FALSE, name |-> <<"gpt-x">>],
      [raises |-> FALSE, name |-> <<"bert">>],
      [raises |-> TRUE, name |-> <<>>] }

\* ml_model.model() was not called
NoModel == [raises |-> FALSE, name |-> <<>>]

\* what one CarbonTracker run leaves in the log directory: an entry without
\* pred, with a pred that has no "co2eq (g)", or with a co2eq (g) value
LogPreds ==
    { [pred |-> "none", co2 |-> 0],
      [pred |-> "nokey", co2 |-> 0],
      [pred |-> "co2", co2 |-> 0],
      [pred |-> "co2", co2 |-> -5],
      [pred |-> "co2", co2 |-> 20],
      [pred |-> "co2", co2 |-> 50] }

(***************************************************************************)
(* Messages.                                                               *)
(***************************************************************************)
MsgTimeout == <<"tracker child process did not finish within the timeout period. Terminating...">>
MsgNoHardware == <<"No hardware components available; failed to obtain carbon footprint value.">>
MsgNoResult == <<"No result obtained from the tracker process; failed to obtain carbon footprint value.">>
MsgErrorCreating == <<"Error creating tracker: ">>
MsgFailed == <<"Failed to obtain carbon footprint information: ">>
MsgNoNonZero == <<"No non-zero CarbonTracker entry found">>
MsgTracker == <<"CarbonTracker error">>
MsgSpawn == <<"OSError">>
MsgJsonDecode == <<"JSONDecodeError">>
MsgTypeError == <<"TypeError">>
MsgModel == <<"ml_model error">>

\* the exit code CarbonTracker ends the process with when no component is available
ExitUnsupported == 70
\* the exit code of a process ended by SIGTERM / by a fault
ExitSigterm == -15
ExitCrash == -11

(***************************************************************************)
(* State.                                                                  *)
(***************************************************************************)
VARIABLES
    pc,              \* where task_callback is ("idle" between invocations)
    inv,             \* the number of the current (or last) invocation
    hw,              \* what the hardware descriptor answered
    energy_consump,  \* task_callback's energy_consump
    proc,            \* proc[i]: the child process of invocation i
    queue,           \* queue[i]: the messages in the pipe of invocation i's queue
    logDir,          \* the entries of /tmp/logs/carbontracker, oldest first
    result,          \* task_callback's result (the message got from the queue)
    carbon,          \* task_callback's carbon
    e,               \* the exception caught at line 137, str(e)
    extra_data_bytes,\* what user_input.extra_data() returned
    ml_model,        \* what ml_model.model() did, if it was called
    co2,             \* the output record
    outcome,         \* the measurement outcome the supervisor settled on
    expired,         \* the join of line 94 returned by timeout, the worker alive
    timedout,        \* line 95 found the worker alive: the timeout is declared
    qread,           \* how many times this invocation inspected the queue
    main,            \* the main thread's position in lines 172-183
    runner,          \* the runner thread's position in run()
    handler,         \* signal_handler's position, "none" when it is not running
    running,         \* the global of line 29
    terminated,      \* CarbonFootprintNode.terminate() was called
    signals,         \* how many SIGINT the process caught
    req,             \* the last configuration request
    res              \* the response configuration_callback filled for it

vars == <<pc, inv, hw, energy_consump, proc, queue, logDir, result, carbon, e,
          extra_data_bytes, ml_model, co2, outcome, expired, timedout, qread,
          main, runner, handler, running, terminated, signals, req, res>>

Invocations == 1..MaxInvocations

\* a child process that was not started (or was discarded after it ended)
NoProc ==
    [st |-> "none", exitcode |-> 0, sigterm |-> FALSE, buf |-> <<>>,
     exc |-> <<>>, nput |-> 0, parsed |-> "none"]

NoMessage == [kind |-> "none", v |-> Zero, msg |-> <<>>, src |-> 0, late |-> FALSE]

\* a fresh output record
FreshCo2 ==
    [carbon_footprint |-> Unset, energy_consumption |-> Unset,
     carbon_intensity |-> Unset, extra_data |-> Unset, writes |-> 0]

\* a request and a response as the framework constructs them
NoRequest == [node_id |-> 0, transaction_id |-> 0, configuration |-> <<>>]

FreshResponse ==
    [node_id |-> 0, transaction_id |-> 0, configuration |-> <<>>,
     success |-> FALSE, err_code |-> 0]

\* Process.is_alive()
Alive(i) == proc[i].st \notin {"none", "exited"}

Init ==
    /\ pc = "idle"
    /\ inv = 0
    /\ hw = NoHw
    /\ energy_consump = Zero
    /\ proc = [i \in Invocations |-> NoProc]
    /\ queue = [i \in Invocations |-> <<>>]
    /\ logDir = <<>>
    /\ result = NoMessage
    /\ carbon = Zero
    /\ e = <<>>
    /\ extra_data_bytes = <<>>
    /\ ml_model = NoModel
    /\ co2 = FreshCo2
    /\ outcome = "None"
    /\ expired = FALSE
    /\ timedout = FALSE
    /\ qread = 0
    /\ main = "install"
    /\ runner = "none"
    /\ handler = "none"
    /\ running = FALSE
    /\ terminated = FALSE
    /\ signals = 0
    /\ req = NoRequest
    /\ res = FreshResponse

Locals == <<hw, energy_consump, result, carbon, e, extra_data_bytes, ml_model>>
Ghosts == <<outcome, expired, timedout, qread>>
Worker == <<proc, queue, logDir>>
Node == <<main, runner, handler, running, terminated, signals, req, res>>
Task == <<pc, inv, Locals, Worker, co2, Ghosts>>

(***************************************************************************)
(* create_tracker, the worker of invocation i (lines 32-66).               *)
(***************************************************************************)
\* lines 35-44: the tracker measures one epoch and writes its log, or raises,
\* or blocks for ever
WTrack(i) ==
    /\ proc[i].st = "start"
    /\ \/ /\ proc' = [proc EXCEPT ![i].st = "tracked"]
          /\ \/ \E p \in LogPreds :
                  logDir' = Append(logDir, [pred |-> p.pred, co2 |-> p.co2, by |-> i])
             \/ logDir' = logDir
       \/ /\ proc' = [proc EXCEPT ![i].st = "raised", ![i].exc = MsgTracker]
          /\ logDir' = logDir
       \/ /\ proc' = [proc EXCEPT ![i].st = "hung"]
          /\ logDir' = logDir
    /\ UNCHANGED <<Node, pc, inv, Locals, queue, co2, Ghosts>>

\* line 55: pred and pred.get("co2eq (g)", 0) > 0
Qualifies(entry) == entry.pred = "co2" /\ entry.co2 > 0

\* a scan in file order, oldest entry first (what the code does not do)
RECURSIVE ScanReversed_Forward(_, _)
ScanReversed_Forward(logs, i) ==
    IF i = 0 THEN 0
    ELSE IF Qualifies(logs[Len(logs) - i + 1]) THEN Len(logs) - i + 1
    ELSE ScanReversed_Forward(logs, i - 1)

\* lines 53-57: the index of the last qualifying entry, 0 if there is none
RECURSIVE ScanReversed(_, _)
ScanReversed(logs, i) ==
    IF i = 0 THEN 0
    ELSE IF Qualifies(logs[i]) THEN i
    ELSE ScanReversed(logs, i - 1)

\* lines 52-62: what the worker does with the parsed logs: the message it
\* puts, or the RuntimeError it raises
Retrieve(logs, late) ==
    IF logs # <<>>
    THEN LET k == ScanReversed(logs, Len(logs)) IN
         IF k > 0
         THEN [raises |-> FALSE,
               put |-> [kind |-> "value", v |-> Float(logs[k].co2), msg |-> <<>>,
                        src |-> logs[k].by, late |-> late]]
         ELSE [raises |-> TRUE, put |-> NoMessage]
    ELSE [raises |-> FALSE,
          put |-> [kind |-> "value", v |-> Zero, msg |-> <<>>, src |-> 0, late |-> late]]

\* lines 46-64: parse the logs (a failure leaves logs = None), pick the
\* carbon value and put it on the queue
WRetrieve(i) ==
    /\ proc[i].st = "tracked"
    /\ \E parse \in {"raises", "ok"} :
         LET logs == IF parse = "raises" THEN <<>> ELSE logDir
             r == Retrieve(logs, i = inv /\ expired)
             how == IF parse = "raises" THEN "raised"
                    ELSE IF logs = <<>> THEN "empty" ELSE "entries"
         IN  proc' = IF r.raises
                     THEN [proc EXCEPT ![i].st = "raised", ![i].exc = MsgNoNonZero,
                                       ![i].parsed = how]
                     ELSE [proc EXCEPT ![i].st = "put", ![i].parsed = how,
                                       ![i].buf = Append(@, r.put),
                                       ![i].nput = @ + 1]
    /\ UNCHANGED <<Node, pc, inv, Locals, queue, logDir, co2, Ghosts>>

\* an except clause that swallows the exception (what the code does not do)
WPutException_Swallowed(i) ==
    /\ proc[i].st = "raised"
    /\ proc' = [proc EXCEPT ![i].st = "put"]
    /\ UNCHANGED <<Node, pc, inv, Locals, queue, logDir, co2, Ghosts>>

\* lines 65-66: the exception is put on the queue
WPutException(i) ==
    /\ proc[i].st = "raised"
    /\ proc' = [proc EXCEPT ![i].st = "put", ![i].nput = @ + 1,
                  ![i].buf = Append(@, [kind |-> "exception", v |-> Zero,
                                        msg |-> proc[i].exc, src |-> 0,
                                        late |-> (i = inv /\ expired)])]
    /\ UNCHANGED <<Node, pc, inv, Locals, queue, logDir, co2, Ghosts>>

\* the queue's feeder thread writes a buffered message to the pipe
WFlush(i) ==
    /\ Alive(i)
    /\ proc[i].buf # <<>>
    /\ queue' = [queue EXCEPT ![i] = Append(@, Head(proc[i].buf))]
    /\ proc' = [proc EXCEPT ![i].buf = Tail(@)]
    /\ UNCHANGED <<Node, pc, inv, Locals, logDir, co2, Ghosts>>

\* create_tracker returns: the process ends once the feeder thread is done
WExit(i) ==
    /\ proc[i].st = "put"
    /\ proc[i].buf = <<>>
    /\ proc' = [proc EXCEPT ![i].st = "exited", ![i].exitcode = 0]
    /\ UNCHANGED <<Node, pc, inv, Locals, queue, logDir, co2, Ghosts>>

\* CarbonTracker finds no component to measure and ends the process
WExitUnsupported(i) ==
    /\ Alive(i)
    /\ proc' = [proc EXCEPT ![i].st = "exited", ![i].exitcode = ExitUnsupported,
                            ![i].buf = <<>>]
    /\ UNCHANGED <<Node, pc, inv, Locals, queue, logDir, co2, Ghosts>>

\* the process dies of a fault in native code
WCrash(i) ==
    /\ Alive(i)
    /\ proc' = [proc EXCEPT ![i].st = "exited", ![i].exitcode = ExitCrash,
                            ![i].buf = <<>>]
    /\ UNCHANGED <<Node, pc, inv, Locals, queue, logDir, co2, Ghosts>>

\* the SIGTERM of proc.terminate() ends the process
WKilled(i) ==
    /\ Alive(i)
    /\ proc[i].sigterm
    /\ proc' = [proc EXCEPT ![i].st = "exited", ![i].exitcode = ExitSigterm,
                            ![i].buf = <<>>]
    /\ UNCHANGED <<Node, pc, inv, Locals, queue, logDir, co2, Ghosts>>

(***************************************************************************)
(* task_callback, the supervisor (lines 78-145).                           *)
(***************************************************************************)
\* the framework invokes task_callback with a fresh output record
Call ==
    /\ pc = "idle"
    /\ inv < MaxInvocations
    /\ inv' = inv + 1
    /\ pc' = "energy"
    /\ co2' = FreshCo2
    /\ UNCHANGED <<Node, Locals, Worker, Ghosts>>

\* lines 81-82: hw.power_consumption() * (hw.latency() / (3600 * 1000))
Energy(h) == RMul(Float(h.power), Rat(h.latency, 3600 * 1000))

\* lines 80-87
ComputeEnergy ==
    /\ pc = "energy"
    /\ \E h \in HwReadings :
         /\ hw' = h
         /\ energy_consump' = IF h.raises THEN Zero ELSE Energy(h)
    /\ pc' = "spawn"
    /\ UNCHANGED <<Node, inv, Worker, result, carbon, e, extra_data_bytes, ml_model, co2,
                   Ghosts>>

\* TryBody with the try ending at line 121, before the metadata is decoded
TryBody_WithoutMetadata ==
    {"spawn", "join", "is_alive", "terminate", "join2", "exitcode", "q_empty",
     "q_get", "populate"}

\* the program points inside the try of lines 90-136
TryBody ==
    {"spawn", "join", "is_alive", "terminate", "join2", "exitcode", "q_empty",
     "q_get", "populate", "metadata"}

\* an exception with message msg is raised at the current program point
Raise(msg) ==
    /\ e' = msg
    /\ pc' = IF pc \in TryBody THEN "except" ELSE "escaped"

\* lines 91-93: the queue and the process are created and the process started
Spawn ==
    /\ pc = "spawn"
    /\ \/ /\ proc' = [proc EXCEPT ![inv] = [NoProc EXCEPT !.st = "start"]]
          /\ pc' = "join"
          /\ UNCHANGED <<e, outcome>>
       \/ /\ Raise(MsgSpawn)
          /\ outcome' = "Failure"
          /\ UNCHANGED proc
    /\ UNCHANGED <<Node, inv, hw, energy_consump, queue, logDir, result, carbon,
                   extra_data_bytes, ml_model, co2, expired, timedout, qread>>

\* line 94: proc.join(timeout=10) returns because the process ended
JoinExited ==
    /\ pc = "join"
    /\ ~Alive(inv)
    /\ pc' = "is_alive"
    /\ UNCHANGED <<Node, inv, Locals, Worker, co2, Ghosts>>

\* line 94: proc.join(timeout=10) returns because the 10 s are over
JoinTimeout ==
    /\ pc = "join"
    /\ Alive(inv)
    /\ pc' = "is_alive"
    /\ expired' = TRUE
    /\ UNCHANGED <<Node, inv, Locals, Worker, co2, outcome, timedout, qread>>

\* IsAlive without the test of line 95: the result is looked for at once
IsAlive_Unchecked ==
    /\ pc = "is_alive"
    /\ pc' = "exitcode"
    /\ UNCHANGED <<Node, inv, Locals, Worker, co2, Ghosts>>

\* lines 95-96: if proc.is_alive()
IsAlive ==
    /\ pc = "is_alive"
    /\ pc' = IF Alive(inv) THEN "terminate" ELSE "exitcode"
    /\ timedout' = Alive(inv)
    /\ UNCHANGED <<Node, inv, Locals, Worker, co2, outcome, expired, qread>>

\* Terminate without the signal: line 97 left out
Terminate_NoSignal ==
    /\ pc = "terminate"
    /\ pc' = "join2"
    /\ UNCHANGED <<Node, inv, Locals, Worker, co2, Ghosts>>

\* line 97: proc.terminate() sends SIGTERM
Terminate ==
    /\ pc = "terminate"
    /\ proc' = [proc EXCEPT ![inv].sigterm = Alive(inv)]
    /\ pc' = "join2"
    /\ UNCHANGED <<Node, inv, Locals, queue, logDir, co2, Ghosts>>

\* JoinTerminated without the raise of line 99: the exit code and the queue
\* are looked at next
JoinTerminated_NoRaise ==
    /\ pc = "join2"
    /\ ~Alive(inv)
    /\ pc' = "exitcode"
    /\ UNCHANGED <<Node, inv, Locals, Worker, co2, Ghosts>>

\* JoinTerminated without the join of line 98: the timeout is raised at once
JoinTerminated_NoWait ==
    /\ pc = "join2"
    /\ outcome' = "Timeout"
    /\ Raise(MsgTimeout)
    /\ UNCHANGED <<Node, inv, hw, energy_consump, result, carbon, extra_data_bytes, ml_model,
                   Worker, co2, expired, timedout, qread>>

\* lines 98-99: proc.join() returns once the process has ended, and the
\* timeout is raised
JoinTerminated ==
    /\ pc = "join2"
    /\ ~Alive(inv)
    /\ outcome' = "Timeout"
    /\ Raise(MsgTimeout)
    /\ UNCHANGED <<Node, inv, hw, energy_consump, result, carbon, extra_data_bytes, ml_model,
                   Worker, co2, expired, timedout, qread>>

\* CheckExitcode without the test of line 101: the queue decides
CheckExitcode_Skipped ==
    /\ pc = "exitcode"
    /\ pc' = "q_empty"
    /\ UNCHANGED <<Node, inv, Locals, Worker, co2, Ghosts>>

\* lines 101-103: the exit code is looked at before the queue
CheckExitcode ==
    /\ pc = "exitcode"
    /\ IF proc[inv].exitcode = ExitUnsupported
       THEN /\ outcome' = "Unsupported"
            /\ Raise(MsgNoHardware)
       ELSE /\ pc' = "q_empty"
            /\ UNCHANGED <<e, outcome>>
    /\ UNCHANGED <<Node, inv, hw, energy_consump, result, carbon, extra_data_bytes, ml_model,
                   Worker, co2, expired, timedout, qread>>

\* lines 104, 111-112: queue.empty()
QueueEmpty ==
    /\ pc = "q_empty"
    /\ qread' = qread + 1
    /\ IF queue[inv] = <<>>
       THEN /\ outcome' = "Failure"
            /\ Raise(MsgNoResult)
       ELSE /\ pc' = "q_get"
            /\ UNCHANGED <<e, outcome>>
    /\ UNCHANGED <<Node, inv, hw, energy_consump, result, carbon, extra_data_bytes, ml_model,
                   Worker, co2, expired, timedout>>

\* lines 105-110: queue.get() and the test of what it returned
QueueGet ==
    /\ pc = "q_get"
    /\ queue[inv] # <<>>
    /\ qread' = qread + 1
    /\ result' = Head(queue[inv])
    /\ queue' = [queue EXCEPT ![inv] = Tail(@)]
    /\ IF Head(queue[inv]).kind = "exception"
       THEN /\ outcome' = "Failure"
            /\ Raise(MsgErrorCreating \o Head(queue[inv]).msg)
            /\ UNCHANGED carbon
       ELSE /\ carbon' = Head(queue[inv]).v
            /\ outcome' = "Success"
            /\ pc' = "populate"
            /\ UNCHANGED e
    /\ UNCHANGED <<Node, inv, hw, energy_consump, extra_data_bytes, ml_model, proc, logDir, co2,
                   expired, timedout>>

\* lines 114-116
Intensity(c, en) == IF RGt0(en) THEN RDiv(c, en) ELSE Zero

\* lines 118-121: the three setters of the output record
Populated(c, en, ci) ==
    [co2 EXCEPT !.carbon_footprint = c, !.energy_consumption = en,
                !.carbon_intensity = ci, !.writes = @ + 1]

\* lines 114-121
Populate ==
    /\ pc = "populate"
    /\ co2' = Populated(carbon, energy_consump, Intensity(carbon, energy_consump))
    /\ pc' = "metadata"
    /\ UNCHANGED <<Node, inv, Locals, Worker, Ghosts>>

\* the value of a step that may raise
Raised(msg) == [raises |-> TRUE, msg |-> msg, sets |-> FALSE, payload |-> JNull]
Nothing == [raises |-> FALSE, msg |-> <<>>, sets |-> FALSE, payload |-> JNull]
Payload(v) == [raises |-> FALSE, msg |-> <<>>, sets |-> TRUE, payload |-> v]

\* BuildExtraData with the model identifier appended after the supplied
\* restrictions instead of placed before them
BuildExtraData_ModelLast(d, m) ==
    CASE PyIn(KeyNumOutputs, d) = "TypeError" -> Raised(MsgTypeError)
      [] PyIn(KeyNumOutputs, d) = "no" -> Nothing
      [] OTHER ->
           IF d.t # "dict" THEN Raised(MsgTypeError)
           ELSE IF DictGet(d, KeyNumOutputs) = JStr(<<>>) THEN Nothing
           ELSE IF m.raises THEN Raised(MsgModel)
           ELSE IF PyIn(KeyModelRestrains, d) = "no"
           THEN Payload(JObj(<<KeyNumOutputs, KeyModelRestrains>>,
                             <<DictGet(d, KeyNumOutputs), JList(<<JStr(m.name)>>)>>))
           ELSE IF ~Iterable(DictGet(d, KeyModelRestrains)) THEN Raised(MsgTypeError)
           ELSE Payload(JObj(<<KeyNumOutputs, KeyModelRestrains>>,
                             <<DictGet(d, KeyNumOutputs),
                               JList(Elements(DictGet(d, KeyModelRestrains))
                                     \o <<JStr(m.name)>>)>>))

\* lines 128-134, on the decoded metadata d, with m what ml_model.model() does
BuildExtraData(d, m) ==
    CASE PyIn(KeyNumOutputs, d) = "TypeError" -> Raised(MsgTypeError)
      [] PyIn(KeyNumOutputs, d) = "no" -> Nothing
      [] OTHER ->
           IF d.t # "dict" THEN Raised(MsgTypeError)
           ELSE IF DictGet(d, KeyNumOutputs) = JStr(<<>>) THEN Nothing
           ELSE IF m.raises THEN Raised(MsgModel)
           ELSE IF PyIn(KeyModelRestrains, d) = "no"
           THEN Payload(JObj(<<KeyNumOutputs, KeyModelRestrains>>,
                             <<DictGet(d, KeyNumOutputs), JList(<<JStr(m.name)>>)>>))
           ELSE IF ~Iterable(DictGet(d, KeyModelRestrains)) THEN Raised(MsgTypeError)
           ELSE Payload(JObj(<<KeyNumOutputs, KeyModelRestrains>>,
                             <<DictGet(d, KeyNumOutputs),
                               JList(<<JStr(m.name)>>
                                     \o Elements(DictGet(d, KeyModelRestrains)))>>))

\* lines 124-134: decode the request metadata and build the payload
ExtraData(bytes, m) ==
    IF ~JsonLoads(bytes).ok THEN Raised(MsgJsonDecode)
    ELSE BuildExtraData(JsonLoads(bytes).val, m)

\* lines 126-130: ml_model.model() is reached
CallsModel(bytes) ==
    /\ JsonLoads(bytes).ok
    /\ JsonLoads(bytes).val.t = "dict"
    /\ PyIn(KeyNumOutputs, JsonLoads(bytes).val) = "yes"
    /\ DictGet(JsonLoads(bytes).val, KeyNumOutputs) # JStr(<<>>)

\* lines 123-135
Metadata ==
    /\ pc = "metadata"
    /\ \E bytes \in UserExtraData, m \in ModelResults :
         LET x == ExtraData(bytes, m) IN
         /\ extra_data_bytes' = bytes
         /\ ml_model' = IF CallsModel(bytes) THEN m ELSE NoModel
         /\ IF x.raises
            THEN /\ Raise(x.msg)
                 /\ UNCHANGED co2
            ELSE /\ co2' = IF x.sets
                           THEN [co2 EXCEPT !.extra_data = JsonDumps(x.payload)]
                           ELSE co2
                 /\ pc' = "done"
                 /\ UNCHANGED e
    /\ UNCHANGED <<Node, inv, hw, energy_consump, result, carbon, Worker, Ghosts>>

\* lines 142-144: the encoded error description
ErrorData(msg) == JsonDumps(JObj(<<<<"error">>>>, <<JStr(MsgFailed \o msg)>>))

\* Except with line 140 passing the estimate instead of 0.0
Except_KeepsEnergy ==
    /\ pc = "except"
    /\ co2' = [Populated(Zero, energy_consump, Zero) EXCEPT !.extra_data = ErrorData(e)]
    /\ pc' = "done"
    /\ UNCHANGED <<Node, inv, Locals, Worker, Ghosts>>

\* lines 137-145: the fallback record
Except ==
    /\ pc = "except"
    /\ co2' = [Populated(Zero, Zero, Zero) EXCEPT !.extra_data = ErrorData(e)]
    /\ pc' = "done"
    /\ UNCHANGED <<Node, inv, Locals, Worker, Ghosts>>

\* task_callback returns: its locals, the Process and the Queue are dropped
Return ==
    /\ pc = "done"
    /\ pc' = "idle"
    /\ hw' = NoHw
    /\ energy_consump' = Zero
    /\ result' = NoMessage
    /\ carbon' = Zero
    /\ e' = <<>>
    /\ extra_data_bytes' = <<>>
    /\ ml_model' = NoModel
    /\ outcome' = "None"
    /\ expired' = FALSE
    /\ timedout' = FALSE
    /\ qread' = 0
    /\ proc' = IF Alive(inv) THEN proc ELSE [proc EXCEPT ![inv] = NoProc]
    /\ queue' = IF Alive(inv) THEN queue ELSE [queue EXCEPT ![inv] = <<>>]
    /\ UNCHANGED <<Node, inv, logDir, co2>>

WorkerStep ==
    \E i \in Invocations :
        \/ WTrack(i)
        \/ WRetrieve(i)
        \/ WPutException(i)
        \/ WFlush(i)
        \/ WExit(i)
        \/ WExitUnsupported(i)
        \/ WCrash(i)
        \/ WKilled(i)

SupervisorStep ==
    \/ Call
    \/ ComputeEnergy
    \/ Spawn
    \/ JoinExited
    \/ JoinTimeout
    \/ IsAlive
    \/ Terminate
    \/ JoinTerminated
    \/ CheckExitcode
    \/ QueueEmpty
    \/ QueueGet
    \/ Populate
    \/ Metadata
    \/ Except
    \/ Return

Next == SupervisorStep \/ WorkerStep

Spec == Init /\ [][Next]_vars

\* The supervisor's thread keeps running, the timer of join(timeout=10)
\* expires, and a process that was sent SIGTERM is ended by the system.
\* Nothing is assumed of the worker's own progress.
LiveSpec ==
    /\ Spec
    /\ WF_vars(SupervisorStep)
    /\ WF_vars(\E i \in Invocations : WKilled(i))

(***************************************************************************)
(* The process: the main thread (lines 171-183), the runner thread (run,   *)
(* lines 164-168), signal_handler (lines 69-73) and configuration_callback *)
(* (lines 150-161), which the node calls while it spins.                   *)
(***************************************************************************)
\* the configuration requests considered
Requests ==
    [node_id : {0, 4}, transaction_id : {1, 7},
     configuration : {<<>>, <<"max_memory_footprint, 100">>,
                      <<"{\"model\": ", "\"gpt-x\"", "}">>}]

MsgUnsupported == <<"Unsupported configuration request: ">>

\* a callback that accepts the request (what the code does not do)
ConfigurationCallback_Accepts(r) ==
    /\ runner = "spin"
    /\ req' = r
    /\ res' = [node_id |-> r.node_id,
               transaction_id |-> r.transaction_id,
               configuration |-> JsonDumps(JObj(<<>>, <<>>)),
               success |-> TRUE,
               err_code |-> 0]
    /\ UNCHANGED <<Task, main, runner, handler, running, terminated, signals>>

\* lines 150-161
ConfigurationCallback(r) ==
    /\ runner = "spin"
    /\ req' = r
    /\ res' = [node_id |-> r.node_id,
               transaction_id |-> r.transaction_id,
               configuration |->
                   JsonDumps(JObj(<<<<"error">>>>,
                                  <<JStr(MsgUnsupported \o r.configuration)>>)),
               success |-> FALSE,
               err_code |-> 1]
    /\ UNCHANGED <<Task, main, runner, handler, running, terminated, signals>>

\* line 172: signal.signal(signal.SIGINT, signal_handler)
MainInstall ==
    /\ main = "install" /\ handler = "none"
    /\ main' = "create"
    /\ UNCHANGED <<Task, runner, handler, running, terminated, signals, req, res>>

\* line 177: runner = threading.Thread(target=run)
MainCreate ==
    /\ main = "create" /\ handler = "none"
    /\ main' = "start"
    /\ UNCHANGED <<Task, runner, handler, running, terminated, signals, req, res>>

\* line 178: runner.start()
MainStart ==
    /\ main = "start" /\ handler = "none"
    /\ main' = "loop"
    /\ runner' = "run"
    /\ UNCHANGED <<Task, handler, running, terminated, signals, req, res>>

\* line 180: while running
MainLoop ==
    /\ main = "loop" /\ handler = "none"
    /\ main' = IF running THEN "sleep" ELSE "join"
    /\ UNCHANGED <<Task, runner, handler, running, terminated, signals, req, res>>

\* line 181: time.sleep(1)
MainSleep ==
    /\ main = "sleep" /\ handler = "none"
    /\ main' = "loop"
    /\ UNCHANGED <<Task, runner, handler, running, terminated, signals, req, res>>

\* line 183: runner.join() returns when run() has returned
MainJoin ==
    /\ main = "join" /\ handler = "none"
    /\ runner = "done"
    /\ main' = "exit"
    /\ UNCHANGED <<Task, runner, handler, running, terminated, signals, req, res>>

\* line 166: running = True
RunSetRunning ==
    /\ runner = "run"
    /\ running' = TRUE
    /\ runner' = "construct"
    /\ UNCHANGED <<Task, main, handler, terminated, signals, req, res>>

\* line 167: the node is constructed
RunConstruct ==
    /\ runner = "construct"
    /\ runner' = "spin"
    /\ UNCHANGED <<Task, main, handler, running, terminated, signals, req, res>>

\* line 168: node.spin() returns once termination was requested
RunSpinReturns ==
    /\ runner = "spin"
    /\ terminated
    /\ runner' = "done"
    /\ UNCHANGED <<Task, main, handler, running, terminated, signals, req, res>>

\* SIGINT is caught once the handler is installed; Python runs the handler
\* on the main thread, between two of its instructions
Signal ==
    /\ main \notin {"install", "exit"}
    /\ handler = "none"
    /\ signals < MaxSignals
    /\ signals' = signals + 1
    /\ handler' = "terminate"
    /\ UNCHANGED <<Task, main, runner, running, terminated, req, res>>

\* line 71: CarbonFootprintNode.terminate()
HandlerTerminate ==
    /\ handler = "terminate"
    /\ terminated' = TRUE
    /\ handler' = "running"
    /\ UNCHANGED <<Task, main, runner, running, signals, req, res>>

\* lines 72-73: running = False, and the handler returns
HandlerRunning ==
    /\ handler = "running"
    /\ running' = FALSE
    /\ handler' = "none"
    /\ UNCHANGED <<Task, main, runner, terminated, signals, req, res>>

MainStep ==
    \/ MainInstall
    \/ MainCreate
    \/ MainStart
    \/ MainLoop
    \/ MainSleep
    \/ MainJoin

RunnerStep ==
    \/ RunSetRunning
    \/ RunConstruct
    \/ RunSpinReturns

HandlerStep ==
    \/ HandlerTerminate
    \/ HandlerRunning

NodeNext ==
    \/ MainStep
    \/ RunnerStep
    \/ HandlerStep
    \/ Signal
    \/ \E r \in Requests : ConfigurationCallback(r)

NodeSpec == Init /\ [][NodeNext]_vars

\* Every thread that can take a step eventually takes one, and a handler
\* that was entered runs to its end.  Nothing is assumed of further signals
\* or of configuration requests.
NodeLiveSpec ==
    /\ NodeSpec
    /\ WF_vars(MainStep)
    /\ WF_vars(RunnerStep)
    /\ WF_vars(HandlerStep)

(***************************************************************************)
(* Properties.                                                             *)
(***************************************************************************)
\* sub occurs in s as a run of consecutive chunks
Contains(s, sub) ==
    \E i \in 1..(Len(s) - Len(sub) + 1) : SubSeq(s, i, i + Len(sub) - 1) = sub

\* the "error" text of an encoded extra_data, "" if it has none
ErrorOf(bytes) ==
    IF /\ JsonLoads(bytes).ok
       /\ JsonLoads(bytes).val.t = "dict"
       /\ PyIn(<<"error">>, JsonLoads(bytes).val) = "yes"
       /\ DictGet(JsonLoads(bytes).val, <<"error">>).t = "str"
    THEN DictGet(JsonLoads(bytes).val, <<"error">>).s
    ELSE <<>>

ZeroRecord ==
    /\ co2.carbon_footprint = Zero
    /\ co2.energy_consumption = Zero
    /\ co2.carbon_intensity = Zero

\* the reason of the measurement failure the supervisor settled on
FailureReason ==
    CASE outcome = "Timeout" -> MsgTimeout
      [] outcome = "Unsupported" -> MsgNoHardware
      [] outcome = "Failure" /\ result.kind = "exception" -> result.msg
      [] outcome = "Failure" /\ result.kind # "exception" /\ qread > 0 -> MsgNoResult
      [] OTHER -> MsgSpawn

\* the request metadata could not be used: empty, not JSON, or not an object
MetadataUnusable ==
    \/ ~JsonLoads(extra_data_bytes).ok
    \/ JsonLoads(extra_data_bytes).val.t # "dict"

\* C1: when task_callback is about to return with a measurement outcome other
\* than Success (timeout, exit code 70, exception in the queue, empty queue,
\* failed spawn), the three numeric fields are 0 and extra_data decodes to an
\* error text that contains the failure reason.
C1_FallbackRecord ==
    (pc = "done" /\ outcome \in {"Timeout", "Unsupported", "Failure"}) =>
        /\ ZeroRecord
        /\ co2.extra_data # Unset
        /\ Contains(ErrorOf(co2.extra_data), FailureReason)

C1_Witness ==
    /\ pc = "done"
    /\ outcome = "Failure"
    /\ result.kind = "exception"
    /\ hw.power > 0
    /\ ZeroRecord
    /\ Contains(ErrorOf(co2.extra_data), MsgNoNonZero)

\* C2 as claimed: if the worker was alive when the join of line 94 ran out of
\* time, the outcome is Timeout, and no value put at or after the deadline is
\* taken as a measurement.
C2_Original ==
    /\ (pc = "done" /\ expired) => outcome = "Timeout"
    /\ (pc = "done" /\ outcome = "Success") => ~result.late

\* C2 as amended: once is_alive() of line 95 has found the worker alive, the
\* queue is never inspected, the outcome is Timeout and the record is the
\* zeroed fallback.
C2_DeclaredTimeout ==
    timedout =>
        /\ qread = 0
        /\ outcome \in {"None", "Timeout"}
        /\ pc = "done" => (outcome = "Timeout" /\ ZeroRecord)

C2_Witness ==
    /\ pc = "done"
    /\ timedout
    /\ outcome = "Timeout"
    /\ queue[inv] # <<>>
    /\ queue[inv][1].kind = "value"
    /\ RGt0(queue[inv][1].v)

\* C3: every invocation of task_callback returns, whatever the worker does.
C3_Returns == (pc # "idle") ~> (pc = "idle")

C3_Witness ==
    /\ pc = "done"
    /\ outcome = "Timeout"
    /\ proc[inv].st = "exited"
    /\ proc[inv].exitcode = ExitSigterm
    /\ proc[inv].nput = 0

\* C4 as claimed: a worker that ended with exit code 70 gives the outcome
\* Unsupported, whatever the queue holds.
C4_Original ==
    (pc = "done" /\ proc[inv].st = "exited" /\ proc[inv].exitcode = ExitUnsupported) =>
        /\ outcome = "Unsupported"
        /\ ZeroRecord
        /\ Contains(ErrorOf(co2.extra_data), MsgNoHardware)

\* C4 as amended: a worker that ended with exit code 70, and that is_alive()
\* of line 95 did not find alive, gives the outcome Unsupported whatever the
\* queue holds, and the queue is not inspected.
C4_UnsupportedFirst ==
    (pc = "done" /\ proc[inv].st = "exited" /\ proc[inv].exitcode = ExitUnsupported
        /\ ~timedout) =>
        /\ outcome = "Unsupported"
        /\ qread = 0
        /\ ZeroRecord
        /\ Contains(ErrorOf(co2.extra_data), MsgNoHardware)

C4_Witness ==
    /\ pc = "done"
    /\ proc[inv].exitcode = ExitUnsupported
    /\ ~timedout
    /\ outcome = "Unsupported"
    /\ queue[inv] # <<>>
    /\ queue[inv][1].kind = "value"
    /\ RGt0(queue[inv][1].v)

\* C5: when task_callback is about to return, and between invocations, no
\* worker is alive; at most one worker is alive at any time.
C5_NoWorkerLeft ==
    /\ pc \in {"done", "idle"} => \A i \in Invocations : ~Alive(i)
    /\ Cardinality({i \in Invocations : Alive(i)}) <= 1

C5_Witness ==
    /\ pc = "done"
    /\ inv = 2
    /\ expired
    /\ timedout
    /\ proc[inv].st = "exited"
    /\ logDir # <<>>

\* C6: the queue is inspected only while the worker is not alive, and never
\* once the timeout is declared.
C6_ReadAfterTermination ==
    /\ [](timedout => qread = 0)
    /\ [][qread' > qread => (~Alive(inv) /\ ~timedout)]_vars

C6_Witness ==
    /\ pc = "populate"
    /\ qread = 2
    /\ ~Alive(inv)
    /\ proc[inv].exitcode = 0
    /\ result.kind = "value"

\* C7: no exception leaves task_callback, and when it is about to return the
\* three numeric fields of the output are set.
C7_NoErrorEscapes ==
    /\ pc # "escaped"
    /\ pc = "done" =>
         /\ co2.carbon_footprint # Unset
         /\ co2.energy_consumption # Unset
         /\ co2.carbon_intensity # Unset

C7_Witness ==
    /\ pc = "done"
    /\ hw.raises
    /\ outcome = "Success"
    /\ e = MsgModel
    /\ co2.carbon_footprint # Unset

\* C8 as claimed: after a successful measurement, unusable request metadata
\* leaves the measured values in the numeric fields and puts the error in
\* extra_data.
C8_Claim ==
    (pc = "done" /\ outcome = "Success" /\ MetadataUnusable) =>
        /\ co2.carbon_footprint = carbon
        /\ co2.energy_consumption = energy_consump
        /\ co2.carbon_intensity = Intensity(carbon, energy_consump)
        /\ ErrorOf(co2.extra_data) # <<>>

\* C9 as claimed: a worker whose parse_all_logs returned an empty list puts
\* an exception on the queue, and the record of that invocation is the
\* zeroed fallback with an error in extra_data.
C9_Claim ==
    /\ \A i \in Invocations :
         proc[i].parsed = "empty" =>
            /\ \A k \in 1..Len(proc[i].buf) : proc[i].buf[k].kind = "exception"
            /\ \A k \in 1..Len(queue[i]) : queue[i][k].kind = "exception"
    /\ (pc = "done" /\ proc[inv].parsed = "empty" /\ result.kind # "none") =>
         /\ outcome = "Failure"
         /\ ZeroRecord
         /\ ErrorOf(co2.extra_data) # <<>>

\* C10 as claimed: a successful measurement of g grams, g > 0, is published
\* as carbon_footprint = g / 1000.
C10_Claim ==
    (pc = "done" /\ outcome = "Success" /\ e = <<>> /\ RGt0(carbon)) =>
        co2.carbon_footprint = RDiv(carbon, Float(1000))

\* the energy of the hardware reading in kWh: W * ms / 3600000 is Wh
EnergyKwh ==
    IF hw.raises THEN Zero
    ELSE RDiv(RMul(Float(hw.power), Rat(hw.latency, 3600000)), Float(1000))

\* C11 as claimed: a successful measurement of g grams is published with
\* carbon_intensity = g / (energy in kWh) when the energy is > 0, and 0
\* otherwise (100 W for 3600000 ms and 50 g give 500).
C11_Claim ==
    (pc = "done" /\ outcome = "Success" /\ e = <<>>) =>
        co2.carbon_intensity =
            IF RGt0(EnergyKwh) THEN RDiv(carbon, EnergyKwh) ELSE Zero

\* the decoded request metadata and the decoded published extra_data
UserDict == JsonLoads(extra_data_bytes).val
PublishedDict == JsonLoads(co2.extra_data).val

\* the request metadata is an object with a non-empty num_outputs and, if it
\* has model_restrains, a list there; ml_model.model() returned an identifier
MetadataWellFormed ==
    /\ CallsModel(extra_data_bytes)
    /\ ~ml_model.raises
    /\ PyIn(KeyModelRestrains, UserDict) = "yes" =>
            DictGet(UserDict, KeyModelRestrains).t = "list"

SuppliedRestrains ==
    IF PyIn(KeyModelRestrains, UserDict) = "yes"
    THEN DictGet(UserDict, KeyModelRestrains).items
    ELSE <<>>

C13_Claim ==
    /\ hw.raises => (energy_consump = Zero /\ pc # "escaped")
    /\ (pc = "done" /\ hw.raises /\ outcome = "Success") =>
         /\ co2.carbon_footprint = carbon
         /\ co2.energy_consumption = Zero
         /\ co2.carbon_intensity = Zero

(***************************************************************************)
(* C16.  A worker that terminates normally (create_tracker returned, exit  *)
(* code 0) has called queue.put exactly once, nothing is left in the       *)
(* feeder's buffer, and while its invocation is still running exactly one  *)
(* message is on the queue or was read from it.                            *)
(***************************************************************************)
C16_ExactlyOneMessage ==
    \A i \in Invocations :
        (proc[i].st = "exited" /\ proc[i].exitcode = 0) =>
            /\ proc[i].nput = 1
            /\ proc[i].buf = <<>>
            /\ (i = inv /\ pc # "idle") =>
                  Len(queue[i]) + (IF result.kind = "none" THEN 0 ELSE 1) = 1

\* a worker whose scan found no non-zero entry has ended normally
C16_Witness ==
    \E i \in Invocations :
        /\ proc[i].st = "exited"
        /\ proc[i].exitcode = 0
        /\ proc[i].exc = MsgNoNonZero
        /\ proc[i].nput = 1

(***************************************************************************)
(* C17.  Within one invocation the setters of the output record are called *)
(* at most once.                                                           *)
(***************************************************************************)
C17_Claim == co2.writes <= 1

(***************************************************************************)
(* C18.  A worker that parsed a non-empty list of log entries puts the     *)
(* co2eq (g) of the most recent entry that has a pred with co2eq (g) > 0,  *)
(* and raises "No non-zero CarbonTracker entry found" when no entry is     *)
(* such; the raised exception is then the message it puts.                 *)
(***************************************************************************)
Usable == {k \in 1..Len(logDir) : logDir[k].pred = "co2" /\ logDir[k].co2 >= 1}

MostRecentUsable == CHOOSE k \in Usable : \A j \in Usable : j <= k

C18_Step(i) ==
    /\ (proc[i].parsed = "none" /\ proc'[i].parsed = "entries") =>
          IF Usable # {}
          THEN /\ proc'[i].st = "put"
               /\ Len(proc'[i].buf) = 1
               /\ proc'[i].buf[1].kind = "value"
               /\ proc'[i].buf[1].v = Float(logDir[MostRecentUsable].co2)
          ELSE /\ proc'[i].st = "raised"
               /\ proc'[i].exc = MsgNoNonZero
               /\ proc'[i].buf = <<>>
    /\ (proc[i].st = "raised" /\ proc'[i].st = "put") =>
          /\ Len(proc'[i].buf) = 1
          /\ proc'[i].buf[1].kind = "exception"
          /\ proc'[i].buf[1].msg = proc[i].exc

C18_MostRecentFirst == [][\A i \in Invocations : C18_Step(i)]_vars

\* the most recent entry was skipped and the older one delivered
C18_Witness ==
    \E i \in Invocations :
        /\ proc[i].parsed = "entries"
        /\ Len(logDir) = 2
        /\ logDir[2].pred = "co2" /\ logDir[2].co2 < 0
        /\ logDir[1].co2 = 20
        /\ proc[i].buf # <<>>
        /\ proc[i].buf[1].kind = "value"
        /\ proc[i].buf[1].v = Float(20)

(***************************************************************************)
(* C19.  No worker puts the value 0 as a sample, and no Success record     *)
(* (one without an error) carries a carbon value of 0.                     *)
(***************************************************************************)
ZeroSample(m) == m.kind = "value" /\ m.v = Zero

C19_Claim ==
    /\ \A i \in Invocations :
          /\ \A k \in 1..Len(proc[i].buf) : ~ZeroSample(proc[i].buf[k])
          /\ \A k \in 1..Len(queue[i]) : ~ZeroSample(queue[i][k])
    /\ (pc = "done" /\ outcome = "Success" /\ e = <<>>) =>
          co2.carbon_footprint # Zero

(***************************************************************************)
(* C20.  The carbon value an invocation publishes was read from a log      *)
(* entry written by the worker of that same invocation.                    *)
(***************************************************************************)
C20_Claim ==
    (pc = "done" /\ outcome = "Success" /\ e = <<>> /\ RGt0(co2.carbon_footprint)) =>
        /\ result.kind = "value"
        /\ result.src = inv

(***************************************************************************)
(* C14.  Every configuration request is answered with success = false,     *)
(* err_code = 1, the request's node_id and transaction_id, and a           *)
(* configuration that decodes to an object whose "error" names the         *)
(* unsupported request; no response ever has success = true.               *)
(***************************************************************************)
C14_Unsupported ==
    /\ res.success = FALSE
    /\ res # FreshResponse =>
          /\ res.err_code = 1
          /\ res.node_id = req.node_id
          /\ res.transaction_id = req.transaction_id
          /\ JsonLoads(res.configuration).ok
          /\ JsonLoads(res.configuration).val.t = "dict"
          /\ JsonLoads(res.configuration).val.keys = <<<<"error">>>>
          /\ ErrorOf(res.configuration) = MsgUnsupported \o req.configuration

C14_Witness ==
    /\ req.node_id = 4
    /\ req.transaction_id = 7
    /\ req.configuration = <<"max_memory_footprint, 100">>
    /\ res.node_id = 4
    /\ res.transaction_id = 7
    /\ res.err_code = 1
    /\ ErrorOf(res.configuration) =
          <<"Unsupported configuration request: ", "max_memory_footprint, 100">>

(***************************************************************************)
(* C15.  Once an interrupt signal was caught, termination of the node is   *)
(* requested and the main thread eventually leaves its "while running"     *)
(* loop.                                                                   *)
(***************************************************************************)
C15_Claim == (signals > 0) ~> (terminated /\ main \in {"join", "exit"})

=============================================================================
